---- MODULE Spec2Model ----
(***************************************************************************)
(* Model of the internship matching core of pmis-proto:                    *)
(*   src/src/models.py   Candidate, Internship, Match                      *)
(*   src/src/matcher.py  InternshipMatcher                                 *)
(*                                                                         *)
(* Numbers.  Python floats are modelled as exact decimals in fixed point:  *)
(* a component score s is the integer 1000*s (0.8 is 800), a total score t *)
(* is the integer 10000*t (0.3 is 3000), a CGPA g is the integer 10*g.     *)
(* Binary rounding of floats is not modelled.                              *)
(*                                                                         *)
(* Strings are sequences of one-character strings, so that lower(),        *)
(* ' '.join(), substring tests and tokenisation are computed, not assumed. *)
(***************************************************************************)
EXTENDS Integers, Sequences, FiniteSets, TLC

VARIABLES
    candidates,      \* argument `candidates` of match_candidates
    internships,     \* argument `internships` of match_candidates
    matcher,         \* the InternshipMatcher instance (self)
    matches,         \* the retained, sorted list built by match_candidates
    quota_trace,     \* per internship, the locals of _apply_rural_quota
    final_matches,   \* the list returned by the last match_candidates call
    runs,            \* number of match_candidates calls made so far
    probe            \* the last direct call of a scoring method and its result

vars == <<candidates, internships, matcher, matches, quota_trace,
          final_matches, runs, probe>>

(***************************************************************************)
(* Bounds of the model.                                                    *)
(***************************************************************************)
MaxCandidates == 3
MaxInternships == 2
MaxSharedCandidates == 2
MaxCapacity == 2
MaxRuns == 2
MaxPreferred == 2
MaxPast == 2
MaxMatches == 3
MaxTopK == 2
MaxResults == 3

(***************************************************************************)
(* Strings.                                                                *)
(***************************************************************************)
LowerChar(c) ==
    CASE c = "A" -> "a" [] c = "C" -> "c" [] c = "G" -> "g" [] c = "I" -> "i"
      [] c = "J" -> "j" [] c = "L" -> "l" [] c = "N" -> "n" [] c = "O" -> "o"
      [] c = "P" -> "p" [] c = "Q" -> "q" [] c = "R" -> "r" [] c = "S" -> "s"
      [] c = "T" -> "t" [] OTHER -> c

\* str.lower()
Lower(s) == [k \in 1..Len(s) |-> LowerChar(s[k])]

\* ' '.join(list)
RECURSIVE Join(_)
Join(list) ==
    IF list = <<>> THEN <<>>
    ELSE IF Len(list) = 1 THEN list[1]
    ELSE list[1] \o <<" ">> \o Join(Tail(list))

\* a in b, for two strings
IsSubstring(a, b) ==
    \E k \in 0..(Len(b) - Len(a)) : SubSeq(b, k + 1, k + Len(a)) = a

\* x in list, for a list
InList(x, list) == \E k \in 1..Len(list) : list[k] = x

\* the regular expression class \w
IsWordChar(c) == c \notin {" ", "+", "#", "-", ".", ","}

\* TfidfVectorizer's default token_pattern (?u)\b\w\w+\b: the maximal runs of
\* word characters that are at least two characters long.
RECURSIVE TokenizeFrom(_, _, _)
TokenizeFrom(s, k, word) ==
    IF k > Len(s)
    THEN IF Len(word) >= 2 THEN <<word>> ELSE <<>>
    ELSE IF IsWordChar(s[k])
         THEN TokenizeFrom(s, k + 1, Append(word, s[k]))
         ELSE (IF Len(word) >= 2 THEN <<word>> ELSE <<>>)
              \o TokenizeFrom(s, k + 1, <<>>)

Tokenize(s) == TokenizeFrom(s, 1, <<>>)

\* the words of sklearn's ENGLISH_STOP_WORDS that the model's alphabet spells
StopWords == { <<"i","t">>, <<"a","n">>, <<"i","n">>, <<"i","s">>, <<"t","o">> }

\* build_analyzer(): lowercase, tokenise, drop the stop words
Analyze(s) == SelectSeq(Tokenize(Lower(s)), LAMBDA w : w \notin StopWords)

\* number of occurrences of token w in the token list doc
Count(w, doc) == Cardinality({k \in 1..Len(doc) : doc[k] = w})

Range(seq) == {seq[k] : k \in 1..Len(seq)}

\* floor of the square root
RECURSIVE SqrtSearch(_, _, _)
SqrtSearch(n, lo, hi) ==
    IF lo >= hi THEN lo
    ELSE LET mid == (lo + hi + 1) \div 2
         IN  IF mid * mid <= n THEN SqrtSearch(n, mid, hi)
                               ELSE SqrtSearch(n, lo, mid - 1)

ISqrt(n) == SqrtSearch(n, 0, 4000)

\* ceiling of the square root
CeilSqrt(n) == LET r == ISqrt(n) IN IF r * r = n THEN r ELSE r + 1

\* sum of the function f over the finite set S, a subset of its domain
RECURSIVE SumOver(_, _)
SumOver(S, f) ==
    IF S = {} THEN 0
    ELSE LET x == CHOOSE y \in S : TRUE IN f[x] + SumOver(S \ {x}, f)

Min(a, b) == IF a <= b THEN a ELSE b
Max(a, b) == IF a >= b THEN a ELSE b

(***************************************************************************)
(* The strings and the lists of strings the model draws from.              *)
(***************************************************************************)
SQL == <<"S", "Q", "L">>
Java == <<"J", "a", "v", "a">>
Cpp == <<"C", "+", "+">>
IT == <<"I", "T">>
Goa == <<"G", "o", "a">>
GOA == <<"G", "O", "A">>
NorthGoa == <<"N", " ", "G", "o", "a">>
Pune == <<"P", "u", "n", "e">>
Empty == <<>>
LowerSql == <<"s", "q", "l">>

SkillLists ==
    { <<>>, <<Empty>>, <<SQL>>, <<LowerSql>>, <<Java>>, <<SQL, Java>>,
      <<SQL, SQL>>, <<Cpp>>, <<Cpp, SQL>>, <<Cpp, Java>>, <<IT>>, <<IT, SQL>>,
      <<IT, Java>> }

QualificationLists == { <<>>, <<IT>>, <<SQL>>, <<SQL, Java>>, <<Cpp>> }

(***************************************************************************)
(* models.py: the enumerations.                                            *)
(***************************************************************************)
SocialCategory == {"general", "obc", "sc", "st", "ews"}
DistrictType == {"rural", "aspirational", "urban"}
Sector == {"technology", "finance", "healthcare", "education",
           "manufacturing", "agriculture", "government", "ngo"}

(***************************************************************************)
(* Fixed-point units and the weights of Match.total_score.                 *)
(***************************************************************************)
One == 1000                 \* the score 1.0
IdfBoth == 10               \* idf of a term in both documents: ln(3/3)+1 = 1.0
IdfOne == 14                \* idf of a term in one document: ln(3/2)+1 = 1.405
SkillWeight == 3            \* 0.3
LocationWeight == 2         \* 0.2
SectorWeight == 2           \* 0.2
EligibilityWeight == 2      \* 0.2
BoostWeight == 1            \* 0.1
Threshold == 3000           \* 0.3

(***************************************************************************)
(* TfidfVectorizer(lowercase=True, stop_words='english').fit_transform on  *)
(* two documents followed by cosine_similarity of the two rows.            *)
(***************************************************************************)
\* the vocabulary fit_transform learns from the two texts
Vocabulary(text1, text2) == Range(Analyze(text1)) \cup Range(Analyze(text2))

\* fit_transform raises ValueError("empty vocabulary") when no token is left
FitRaises(text1, text2) == Vocabulary(text1, text2) = {}

\* tf-idf weight of each vocabulary term in document doc, before l2
\* normalisation; other is the second document of the corpus
TfidfRow(doc, other) ==
    [w \in Range(doc) \cup Range(other) |->
        Count(w, doc) * (IF Count(w, doc) > 0 /\ Count(w, other) > 0
                         THEN IdfBoth ELSE IdfOne)]

\* cosine similarity of the two tf-idf rows, in thousandths
TfidfCosine(text1, text2) ==
    LET d1 == Analyze(text1)
        d2 == Analyze(text2)
        V == Range(d1) \cup Range(d2)
        r1 == TfidfRow(d1, d2)
        r2 == TfidfRow(d2, d1)
        dot == SumOver(V, [w \in V |-> r1[w] * r2[w]])
        n1 == SumOver(V, [w \in V |-> r1[w] * r1[w]])
        n2 == SumOver(V, [w \in V |-> r2[w] * r2[w]])
    IN  IF n1 = 0 \/ n2 = 0 THEN 0
        ELSE (One * dot) \div CeilSqrt(n1 * n2)

(***************************************************************************)
(* InternshipMatcher: the scoring methods.  self is the matcher instance.  *)
(***************************************************************************)
\* __init__
NewMatcher ==
    [skill_vocabulary |-> {}, qualification_vocabulary |-> {},
     skill_fitted |-> FALSE, qualification_fitted |-> FALSE, _fitted |-> FALSE]

\* set(x.lower() for x in list)
LowerSet(list) == {Lower(list[k]) : k \in 1..Len(list)}

\* _calculate_skill_match on the two skill lists: the returned score
SkillMatchScore(skills, required_skills) ==
    LET candidate_skills_text == Lower(Join(skills))
        required_skills_text == Lower(Join(required_skills))
    IN  IF candidate_skills_text = <<>> \/ required_skills_text = <<>>
        THEN 0
        ELSE IF ~FitRaises(candidate_skills_text, required_skills_text)
        THEN Max(0, TfidfCosine(candidate_skills_text, required_skills_text))
        ELSE LET candidate_skills_set == LowerSet(skills)
                 required_skills_set == LowerSet(required_skills)
                 overlap == Cardinality(candidate_skills_set
                                        \cap required_skills_set)
             IN  IF required_skills_set = {} THEN One
                 ELSE (One * overlap) \div Cardinality(required_skills_set)

\* _calculate_skill_match on the two skill lists: the vocabulary that
\* fit_transform leaves in self.skill_vectorizer; fitted is FALSE when
\* fit_transform is not reached or raises
SkillMatchFit(skills, required_skills) ==
    LET candidate_skills_text == Lower(Join(skills))
        required_skills_text == Lower(Join(required_skills))
    IN  IF candidate_skills_text = <<>> \/ required_skills_text = <<>>
           \/ FitRaises(candidate_skills_text, required_skills_text)
        THEN [fitted |-> FALSE, vocabulary |-> {}]
        ELSE [fitted |-> TRUE,
              vocabulary |->
                Vocabulary(candidate_skills_text, required_skills_text)]

\* _calculate_qualification_match on the two lists: the returned score
QualificationMatchScore(qualifications, preferred_qualifications) ==
    LET candidate_quals_text == Lower(Join(qualifications))
        preferred_quals_text == Lower(Join(preferred_qualifications))
    IN  IF preferred_quals_text = <<>> THEN One
        ELSE IF candidate_quals_text = <<>> THEN 0
        ELSE IF ~FitRaises(candidate_quals_text, preferred_quals_text)
        THEN Max(0, TfidfCosine(candidate_quals_text, preferred_quals_text))
        ELSE LET candidate_quals_set == LowerSet(qualifications)
                 preferred_quals_set == LowerSet(preferred_qualifications)
                 overlap == Cardinality(candidate_quals_set
                                        \cap preferred_quals_set)
             IN  IF preferred_quals_set = {} THEN One
                 ELSE (One * overlap) \div Cardinality(preferred_quals_set)

\* _calculate_qualification_match on the two lists: the vocabulary left in
\* self.qualification_vectorizer
QualificationMatchFit(qualifications, preferred_qualifications) ==
    LET candidate_quals_text == Lower(Join(qualifications))
        preferred_quals_text == Lower(Join(preferred_qualifications))
    IN  IF preferred_quals_text = <<>> \/ candidate_quals_text = <<>>
           \/ FitRaises(candidate_quals_text, preferred_quals_text)
        THEN [fitted |-> FALSE, vocabulary |-> {}]
        ELSE [fitted |-> TRUE,
              vocabulary |->
                Vocabulary(candidate_quals_text, preferred_quals_text)]

\* The four operators above, tabulated once over the lists the model uses.
SkillMatchScoreOf ==
    [a \in SkillLists, b \in SkillLists |-> SkillMatchScore(a, b)]
SkillMatchFitOf ==
    [a \in SkillLists, b \in SkillLists |-> SkillMatchFit(a, b)]
QualificationMatchScoreOf ==
    [a \in QualificationLists, b \in QualificationLists |->
        QualificationMatchScore(a, b)]
QualificationMatchFitOf ==
    [a \in QualificationLists, b \in QualificationLists |->
        QualificationMatchFit(a, b)]

CalculateSkillMatchFitOnce(self, candidate, internship) ==
    LET fit == SkillMatchFitOf[candidate.skills, internship.required_skills]
    IN  IF self.skill_fitted /\ fit.fitted
           /\ ~(fit.vocabulary \subseteq self.skill_vocabulary)
        THEN 0
        ELSE SkillMatchScoreOf[candidate.skills, internship.required_skills]

\* _calculate_skill_match: the returned score
CalculateSkillMatch(self, candidate, internship) ==
    SkillMatchScoreOf[candidate.skills, internship.required_skills]

\* _calculate_skill_match: the matcher after the call
SkillMatchEffect(self, candidate, internship) ==
    LET fit == SkillMatchFitOf[candidate.skills, internship.required_skills]
    IN  IF ~fit.fitted THEN self
        ELSE [self EXCEPT !.skill_vocabulary = fit.vocabulary,
                          !.skill_fitted = TRUE]

\* _calculate_qualification_match: the returned score
CalculateQualificationMatch(self, candidate, internship) ==
    QualificationMatchScoreOf[candidate.qualifications,
                              internship.preferred_qualifications]

\* _calculate_qualification_match: the matcher after the call
QualificationMatchEffect(self, candidate, internship) ==
    LET fit == QualificationMatchFitOf[candidate.qualifications,
                                       internship.preferred_qualifications]
    IN  IF ~fit.fitted THEN self
        ELSE [self EXCEPT !.qualification_vocabulary = fit.vocabulary,
                          !.qualification_fitted = TRUE]

CalculateLocationPreferenceScoreCurrentFirst(candidate, internship) ==
    LET preferred_locations_lower ==
            [k \in 1..Len(candidate.preferred_locations) |->
                Lower(candidate.preferred_locations[k])]
        internship_location_lower == Lower(internship.location)
    IN  IF internship.remote_allowed THEN 1000
        ELSE IF Lower(candidate.location) = internship_location_lower
        THEN 800
        ELSE IF InList(internship_location_lower, preferred_locations_lower)
        THEN 1000
        ELSE IF \E k \in 1..Len(preferred_locations_lower) :
                    \/ IsSubstring(preferred_locations_lower[k],
                                   internship_location_lower)
                    \/ IsSubstring(internship_location_lower,
                                   preferred_locations_lower[k])
        THEN 600
        ELSE 200

\* _calculate_location_preference_score
CalculateLocationPreferenceScore(candidate, internship) ==
    LET preferred_locations_lower ==
            [k \in 1..Len(candidate.preferred_locations) |->
                Lower(candidate.preferred_locations[k])]
        internship_location_lower == Lower(internship.location)
    IN  IF internship.remote_allowed THEN 1000
        ELSE IF InList(internship_location_lower, preferred_locations_lower)
        THEN 1000
        ELSE IF Lower(candidate.location) = internship_location_lower
        THEN 800
        ELSE IF \E k \in 1..Len(preferred_locations_lower) :
                    \/ IsSubstring(preferred_locations_lower[k],
                                   internship_location_lower)
                    \/ IsSubstring(internship_location_lower,
                                   preferred_locations_lower[k])
        THEN 600
        ELSE 200

\* _calculate_sector_interest_score
CalculateSectorInterestScore(candidate, internship) ==
    IF InList(internship.sector, candidate.sector_interests) THEN 1000 ELSE 300

CalculateEligibilityScoreInclusive(candidate, internship) ==
    LET s0 == 1000
        s1 == IF candidate.cgpa <= internship.min_cgpa
              THEN (s0 * 2) \div 10 ELSE s0
        s2 == IF candidate.experience_months < internship.min_experience_months
              THEN (s1 * 5) \div 10 ELSE s1
    IN  s2

\* _calculate_eligibility_score
CalculateEligibilityScore(candidate, internship) ==
    LET s0 == 1000
        s1 == IF candidate.cgpa < internship.min_cgpa
              THEN (s0 * 2) \div 10 ELSE s0
        s2 == IF candidate.experience_months < internship.min_experience_months
              THEN (s1 * 5) \div 10 ELSE s1
    IN  s2

CalculateAffirmativeActionBoostRuralOnly(candidate, internship) ==
    LET b0 == 0
        b1 == IF candidate.district_type \in {"rural"}
              THEN b0 + 300 ELSE b0
        b2 == IF InList(candidate.social_category,
                        internship.preferred_social_categories)
              THEN b1 + 200 ELSE b1
        b3 == IF Len(candidate.past_internships) = 0 THEN b2 + 200
              ELSE IF Len(candidate.past_internships) <= 1 THEN b2 + 100
              ELSE b2
    IN  Min(b3, 1000)

\* _calculate_affirmative_action_boost
CalculateAffirmativeActionBoost(candidate, internship) ==
    LET b0 == 0
        b1 == IF candidate.district_type \in {"rural", "aspirational"}
              THEN b0 + 300 ELSE b0
        b2 == IF InList(candidate.social_category,
                        internship.preferred_social_categories)
              THEN b1 + 200 ELSE b1
        b3 == IF Len(candidate.past_internships) = 0 THEN b2 + 200
              ELSE IF Len(candidate.past_internships) <= 1 THEN b2 + 100
              ELSE b2
    IN  Min(b3, 1000)

CheckCapacityConstraintInclusive(internship) ==
    internship.filled_positions <= internship.capacity

\* _check_capacity_constraint
CheckCapacityConstraint(internship) ==
    internship.filled_positions < internship.capacity

TotalScoreSkillHalf(m) ==
      m.skill_match_score * 5
    + m.location_preference_score * LocationWeight
    + m.sector_interest_score * SectorWeight
    + m.eligibility_score * EligibilityWeight
    + m.affirmative_action_boost * BoostWeight

\* Match.total_score, in ten-thousandths
TotalScore(m) ==
      m.skill_match_score * SkillWeight
    + m.location_preference_score * LocationWeight
    + m.sector_interest_score * SectorWeight
    + m.eligibility_score * EligibilityWeight
    + m.affirmative_action_boost * BoostWeight

(***************************************************************************)
(* Python list operations.                                                 *)
(***************************************************************************)
SliceToExact(list, n) ==
    IF n >= 0 /\ n <= Len(list) THEN SubSeq(list, 1, n) ELSE <<>>

\* list[:n]
SliceTo(list, n) ==
    IF n >= 0 THEN SubSeq(list, 1, Min(n, Len(list)))
    ELSE SubSeq(list, 1, Max(0, Len(list) + n))

SliceFromSkippingOne(list, n) ==
    IF n >= 0 THEN SubSeq(list, Min(n + 1, Len(list)) + 1, Len(list))
    ELSE SubSeq(list, Max(0, Len(list) + n + 1) + 1, Len(list))

\* list[n:]
SliceFrom(list, n) ==
    IF n >= 0 THEN SubSeq(list, Min(n, Len(list)) + 1, Len(list))
    ELSE SubSeq(list, Max(0, Len(list) + n) + 1, Len(list))

\* int(x / y) for y > 0: truncation towards zero
IntDiv(x, y) == IF x >= 0 THEN x \div y ELSE -((-x) \div y)

InsertByScoreAscending(sorted, m) ==
    LET before == SelectSeq(sorted, LAMBDA x : TotalScore(x) <= TotalScore(m))
        after == SelectSeq(sorted, LAMBDA x : TotalScore(x) > TotalScore(m))
    IN  before \o <<m>> \o after

InsertByScoreBeforeEqual(sorted, m) ==
    LET before == SelectSeq(sorted, LAMBDA x : TotalScore(x) > TotalScore(m))
        after == SelectSeq(sorted, LAMBDA x : TotalScore(x) <= TotalScore(m))
    IN  before \o <<m>> \o after

\* one step of the stable descending sort: m goes after every element whose
\* key is greater than or equal to its own
InsertByScore(sorted, m) ==
    LET before == SelectSeq(sorted, LAMBDA x : TotalScore(x) >= TotalScore(m))
        after == SelectSeq(sorted, LAMBDA x : TotalScore(x) < TotalScore(m))
    IN  before \o <<m>> \o after

SortByScoreUnsorted(list) == list

\* sorted(list, key=lambda m: m.total_score(), reverse=True); the sort is
\* stable, and with reverse=True equal keys keep their original order
RECURSIVE SortByScore(_)
SortByScore(list) ==
    IF list = <<>> THEN <<>>
    ELSE InsertByScore(SortByScore(SubSeq(list, 1, Len(list) - 1)),
                       list[Len(list)])

\* {x.id: x for x in list}: a later element replaces an earlier one
DictById(list) ==
    [id \in {list[k].id : k \in 1..Len(list)} |->
        LET last == CHOOSE k \in 1..Len(list) :
                        /\ list[k].id = id
                        /\ \A j \in (k + 1)..Len(list) : list[j].id # id
        IN  list[last]]

\* the keys of internship_matches, in insertion order
RECURSIVE GroupKeys(_)
GroupKeys(list) ==
    IF list = <<>> THEN <<>>
    ELSE LET rest == GroupKeys(SubSeq(list, 1, Len(list) - 1))
             key == list[Len(list)].internship_id
         IN  IF InList(key, rest) THEN rest ELSE Append(rest, key)

(***************************************************************************)
(* InternshipMatcher._apply_rural_quota                                    *)
(***************************************************************************)
IsRuralMatch(match, candidates_dict) ==
    candidates_dict[match.candidate_id].district_type
        \in {"rural", "aspirational"}

AvailablePositionsIgnoringFilled(internship) == internship.capacity

\* available_positions = internship.capacity - internship.filled_positions
AvailablePositions(internship) ==
    internship.capacity - internship.filled_positions

RuralPositionsIgnoringQuota(available_positions, rural_quota_percentage) == 0

RuralPositionsRoundedUp(available_positions, rural_quota_percentage) ==
    (available_positions * rural_quota_percentage + 99) \div 100

\* rural_positions = int(available_positions * rural_quota_percentage / 100)
RuralPositions(available_positions, rural_quota_percentage) ==
    IntDiv(available_positions * rural_quota_percentage, 100)

RemainingPositionsIgnoringSelected(available_positions, selected_matches) ==
    available_positions

\* remaining_positions = available_positions - len(selected_matches)
RemainingPositions(available_positions, selected_matches) ==
    available_positions - Len(selected_matches)

RemainingCandidatesAllRural(rural_matches, rural_positions, non_rural_matches) ==
    rural_matches \o non_rural_matches

RemainingCandidatesNonRuralOnly(rural_matches, rural_positions, non_rural_matches) ==
    non_rural_matches

\* remaining_candidates = rural_matches[rural_positions:] + non_rural_matches
RemainingCandidates(rural_matches, rural_positions, non_rural_matches) ==
    SliceFrom(rural_matches, rural_positions) \o non_rural_matches

\* the body of the loop for one internship: every local of the iteration
QuotaForInternship(internship_id, internship_match_list, internships_dict, candidates_dict) ==
    LET internship == internships_dict[internship_id]
        available_positions == AvailablePositions(internship)
        rural_positions ==
            RuralPositions(available_positions,
                           internship.rural_quota_percentage)
        general_positions == available_positions - rural_positions
        sorted_matches == SortByScore(internship_match_list)
        rural_matches ==
            SelectSeq(sorted_matches,
                      LAMBDA m : IsRuralMatch(m, candidates_dict))
        non_rural_matches ==
            SelectSeq(sorted_matches,
                      LAMBDA m : ~IsRuralMatch(m, candidates_dict))
        rural_selected == SliceTo(rural_matches, rural_positions)
        remaining_positions ==
            RemainingPositions(available_positions, rural_selected)
        remaining_candidates ==
            SortByScore(RemainingCandidates(rural_matches, rural_positions,
                                            non_rural_matches))
        general_selected ==
            IF remaining_positions > 0
            THEN SliceTo(remaining_candidates, remaining_positions)
            ELSE <<>>
    IN  [internship_id |-> internship_id,
         skipped |-> available_positions <= 0,
         internship_match_list |-> internship_match_list,
         available_positions |-> available_positions,
         rural_positions |-> rural_positions,
         general_positions |-> general_positions,
         rural_matches |-> rural_matches,
         non_rural_matches |-> non_rural_matches,
         rural_selected |-> rural_selected,
         remaining_positions |-> remaining_positions,
         remaining_candidates |-> remaining_candidates,
         general_selected |-> general_selected,
         selected_matches |->
            IF available_positions <= 0 THEN <<>>
            ELSE rural_selected \o general_selected]

\* one record of locals per key of internship_matches, in iteration order
ApplyRuralQuotaTrace(match_list, internships_dict, candidates_dict) ==
    LET keys == GroupKeys(match_list)
    IN  [k \in 1..Len(keys) |->
            QuotaForInternship(
                keys[k],
                SelectSeq(match_list, LAMBDA m : m.internship_id = keys[k]),
                internships_dict, candidates_dict)]

RECURSIVE ConcatSelectedExclusive(_)
ConcatSelectedExclusive(trace) ==
    IF trace = <<>> THEN <<>>
    ELSE LET rest == ConcatSelectedExclusive(SubSeq(trace, 1, Len(trace) - 1))
         IN  rest \o SelectSeq(trace[Len(trace)].selected_matches,
                               LAMBDA m : \A j \in 1..Len(rest) :
                                   rest[j].candidate_id # m.candidate_id)

\* final_matches after the loop: final_matches.extend(selected_matches) for
\* each internship in turn
RECURSIVE ConcatSelected(_)
ConcatSelected(trace) ==
    IF trace = <<>> THEN <<>>
    ELSE trace[1].selected_matches \o ConcatSelected(Tail(trace))

\* _apply_rural_quota: the returned final_matches
ApplyRuralQuota(match_list, internships_dict, candidates_dict) ==
    ConcatSelected(
        ApplyRuralQuotaTrace(match_list, internships_dict, candidates_dict))

(***************************************************************************)
(* InternshipMatcher.match_candidates                                      *)
(***************************************************************************)
ScorePairQualificationGated(self, candidate, internship) ==
    [candidate_id |-> candidate.id,
     internship_id |-> internship.id,
     match_score |-> 0,
     skill_match_score |-> CalculateSkillMatch(self, candidate, internship),
     location_preference_score |->
        CalculateLocationPreferenceScore(candidate, internship),
     sector_interest_score |->
        CalculateSectorInterestScore(candidate, internship),
     affirmative_action_boost |->
        CalculateAffirmativeActionBoost(candidate, internship),
     eligibility_score |->
        (CalculateEligibilityScore(candidate, internship)
         * CalculateQualificationMatch(self, candidate, internship)) \div One]

\* the Match built for one pair by the body of the double loop
ScorePair(self, candidate, internship) ==
    [candidate_id |-> candidate.id,
     internship_id |-> internship.id,
     match_score |-> 0,
     skill_match_score |-> CalculateSkillMatch(self, candidate, internship),
     location_preference_score |->
        CalculateLocationPreferenceScore(candidate, internship),
     sector_interest_score |->
        CalculateSectorInterestScore(candidate, internship),
     affirmative_action_boost |->
        CalculateAffirmativeActionBoost(candidate, internship),
     eligibility_score |-> CalculateEligibilityScore(candidate, internship)]

\* the matcher after the scoring calls made for one pair
ScorePairEffect(self, candidate, internship) ==
    QualificationMatchEffect(SkillMatchEffect(self, candidate, internship),
                             candidate, internship)

RetainedAtThreshold(match) == TotalScore(match) >= Threshold

\* if match.total_score() > 0.3
Retained(match) == TotalScore(match) > Threshold

\* [i for i in internships if self._check_capacity_constraint(i)]
AvailableInternships(internship_list) ==
    SelectSeq(internship_list, CheckCapacityConstraint)

\* the double loop, from pair number n on: candidates outer, internships inner
RECURSIVE ScoreLoop(_, _, _, _, _)
ScoreLoop(self, candidate_list, available_internships, n, acc) ==
    IF n > Len(candidate_list) * Len(available_internships)
    THEN [self |-> self, matches |-> acc]
    ELSE LET candidate ==
                 candidate_list[((n - 1) \div Len(available_internships)) + 1]
             internship ==
                 available_internships[((n - 1) % Len(available_internships)) + 1]
             match == ScorePair(self, candidate, internship)
         IN  ScoreLoop(ScorePairEffect(self, candidate, internship),
                       candidate_list, available_internships, n + 1,
                       IF Retained(match) THEN Append(acc, match) ELSE acc)

InternshipsAfterFilling(internship_list, trace) ==
    [k \in 1..Len(internship_list) |->
        [internship_list[k] EXCEPT !.filled_positions =
            @ + SumOver({ n \in 1..Len(trace) :
                            trace[n].internship_id = internship_list[k].id },
                        [n \in 1..Len(trace) |->
                            Len(trace[n].selected_matches)])]]

\* the Internship objects after _apply_rural_quota: capacity and
\* filled_positions are read, no attribute of an internship is assigned
InternshipsAfter(internship_list, trace) == internship_list

\* match_candidates: the matcher after the call, the sorted retained list,
\* the locals of _apply_rural_quota, the returned list and the Internship
\* objects after the call
MatchCandidates(self, candidate_list, internship_list) ==
    LET candidates_dict == DictById(candidate_list)
        internships_dict == DictById(internship_list)
        available_internships == AvailableInternships(internship_list)
        scored == ScoreLoop(self, candidate_list, available_internships, 1, <<>>)
        sorted == SortByScore(scored.matches)
        trace == ApplyRuralQuotaTrace(sorted, internships_dict, candidates_dict)
    IN  [self |-> scored.self,
         matches |-> sorted,
         quota_trace |-> trace,
         final_matches |-> ConcatSelected(trace),
         internships |-> InternshipsAfter(internship_list, trace)]

(***************************************************************************)
(* The inputs the model draws from.                                        *)
(***************************************************************************)
\* a candidate that scores 1.0 on every component but the boost against
\* BaseInternship
BaseCandidate ==
    [id |-> 0,
     skills |-> <<SQL, Java>>,
     qualifications |-> <<IT>>,
     location |-> Goa,
     preferred_locations |-> <<Goa>>,
     sector_interests |-> <<"technology">>,
     social_category |-> "general",
     district_type |-> "urban",
     past_internships |-> <<1, 2>>,
     cgpa |-> 80,
     experience_months |-> 6]

BaseInternship ==
    [id |-> 0,
     sector |-> "technology",
     required_skills |-> <<SQL, Java>>,
     preferred_qualifications |-> <<IT>>,
     location |-> Goa,
     remote_allowed |-> FALSE,
     capacity |-> 1,
     filled_positions |-> 0,
     min_cgpa |-> 70,
     min_experience_months |-> 3,
     preferred_social_categories |-> <<"sc", "st">>,
     rural_quota_percentage |-> 50]

\* the candidates match_candidates is run on: their total scores against
\* BaseInternship are 0.9, 0.93, 0.6434 and exactly 0.3
CandidateProfiles ==
    { BaseCandidate,
      [BaseCandidate EXCEPT !.district_type = "rural"],
      [BaseCandidate EXCEPT !.district_type = "aspirational",
                            !.skills = <<SQL>>, !.cgpa = 60],
      [BaseCandidate EXCEPT !.skills = <<>>, !.location = Pune,
                            !.preferred_locations = <<>>,
                            !.sector_interests = <<"finance">>] }

QuotaPercentages == {0, 50, 100}

\* the internships of a run on a single internship: every capacity up to
\* MaxCapacity, filled_positions from 0 to one more than the capacity
InternshipProfiles ==
    { i \in { [BaseInternship EXCEPT !.capacity = c, !.filled_positions = f,
                                     !.rural_quota_percentage = q] :
                c \in 0..MaxCapacity, f \in 0..(MaxCapacity + 1),
                q \in QuotaPercentages } :
        i.filled_positions <= i.capacity + 1 }

\* the candidates and internships of a run on several internships
SharedCandidateProfiles ==
    { BaseCandidate,
      [BaseCandidate EXCEPT !.district_type = "rural"],
      [BaseCandidate EXCEPT !.district_type = "aspirational",
                            !.skills = <<SQL>>, !.cgpa = 60] }

SharedInternshipProfiles ==
    { [BaseInternship EXCEPT !.capacity = MaxCapacity, !.filled_positions = f,
                             !.rural_quota_percentage = q] :
        f \in 0..MaxCapacity, q \in {50, 100} }

\* lists of at most n records of S, the record at position k having id k
ListsOf(S, n) ==
    UNION { { [k \in 1..len |-> [f[k] EXCEPT !.id = k]] : f \in [1..len -> S] } :
            len \in 0..n }

TypeOK ==
    /\ runs \in 0..MaxRuns
    /\ probe.op \in {"none", "skill", "qualification", "location", "sector",
                     "eligibility", "boost", "capacity", "pair",
                     "top_matches", "top_candidates", "order",
                     "qualifications", "eq", "rerank"}

(***************************************************************************)
(* The allocation run: match_candidates on the drawn inputs.               *)
(***************************************************************************)
NoProbe == [op |-> "none"]

Init ==
    /\ \/ /\ candidates \in ListsOf(CandidateProfiles, MaxCandidates)
          /\ internships \in ListsOf(InternshipProfiles, 1)
       \/ /\ candidates \in ListsOf(SharedCandidateProfiles,
                                    MaxSharedCandidates)
          /\ internships \in ListsOf(SharedInternshipProfiles, MaxInternships)
    /\ matcher = NewMatcher
    /\ matches = <<>>
    /\ quota_trace = <<>>
    /\ final_matches = <<>>
    /\ runs = 0
    /\ probe = NoProbe

\* matcher.match_candidates(candidates, internships)
RunMatchCandidates ==
    /\ runs < 1
    /\ LET r == MatchCandidates(matcher, candidates, internships)
       IN  /\ matcher' = r.self
           /\ matches' = r.matches
           /\ quota_trace' = r.quota_trace
           /\ final_matches' = r.final_matches
           /\ internships' = r.internships
    /\ runs' = runs + 1
    /\ UNCHANGED <<candidates, probe>>

Next == RunMatchCandidates

Spec == Init /\ [][Next]_vars

(***************************************************************************)
(* Properties of the allocation run.                                       *)
(***************************************************************************)
\* the winners returned for the internship with this id
WinnersOf(internship_id) ==
    SelectSeq(final_matches, LAMBDA m : m.internship_id = internship_id)

\* the retained matches of the internship with this id
RetainedOf(internship_id) ==
    SelectSeq(matches, LAMBDA m : m.internship_id = internship_id)

\* the candidate of a match is from a RURAL or ASPIRATIONAL district
RuralEligible(m) ==
    \E k \in 1..Len(candidates) :
        /\ candidates[k].id = m.candidate_id
        /\ candidates[k].district_type \in {"rural", "aspirational"}

RuralWinnersOf(internship_id) == SelectSeq(WinnersOf(internship_id), RuralEligible)

Available(i) == i.capacity - i.filled_positions

\* floor(available * rural_quota_percentage / 100)
RuralTarget(i) == (Available(i) * i.rural_quota_percentage) \div 100

InputsInRange ==
    \A k \in 1..Len(internships) :
        /\ 0 <= internships[k].filled_positions
        /\ internships[k].filled_positions <= internships[k].capacity
        /\ 0 <= internships[k].rural_quota_percentage
        /\ internships[k].rural_quota_percentage <= 100

\* C1: on inputs with 0 <= filled_positions <= capacity and a quota between 0
\* and 100, match_candidates returns at most capacity - filled_positions
\* matches for each internship.
C1_AtMostAvailableWinners ==
    (runs > 0 /\ InputsInRange) =>
        \A k \in 1..Len(internships) :
            Len(WinnersOf(internships[k].id)) <= Available(internships[k])

\* a partly filled internship with more retained matches than free positions
C1_Witness ==
    /\ runs > 0
    /\ InputsInRange
    /\ \E k \in 1..Len(internships) :
        /\ internships[k].filled_positions > 0
        /\ Available(internships[k]) > 0
        /\ Len(RetainedOf(internships[k].id)) > Available(internships[k])
        /\ Len(WinnersOf(internships[k].id)) = Available(internships[k])

\* C2 as stated: the rural-eligible winners of an internship number at most
\* floor(available * rural_quota_percentage / 100).
C2_RuralWinnersWithinQuota ==
    runs > 0 =>
        \A k \in 1..Len(internships) :
            Available(internships[k]) > 0 =>
                Len(RuralWinnersOf(internships[k].id))
                    <= RuralTarget(internships[k])

\* C2 amended: the winners taken in the rural-quota step are rural-eligible
\* and number at most floor(available * rural_quota_percentage / 100); the
\* rural-eligible winners of the internship number at most available.
C2_RuralStepWithinQuota ==
    runs > 0 =>
        \A n \in 1..Len(quota_trace) :
            \A k \in 1..Len(internships) :
                internships[k].id = quota_trace[n].internship_id =>
                    /\ Len(quota_trace[n].rural_selected)
                           <= RuralTarget(internships[k])
                    /\ \A j \in 1..Len(quota_trace[n].rural_selected) :
                           RuralEligible(quota_trace[n].rural_selected[j])
                    /\ Len(RuralWinnersOf(internships[k].id))
                           <= Available(internships[k])

\* the rural-quota step is full and a further rural-eligible match wins a
\* position of the remaining pool
C2_Witness ==
    /\ runs > 0
    /\ \E n \in 1..Len(quota_trace) :
         \E k \in 1..Len(internships) :
            /\ internships[k].id = quota_trace[n].internship_id
            /\ RuralTarget(internships[k]) >= 1
            /\ Len(quota_trace[n].rural_selected) = RuralTarget(internships[k])
            /\ Len(RuralWinnersOf(internships[k].id))
                   > RuralTarget(internships[k])

\* C4: every returned Match has a total score strictly above 0.3, and a pair
\* whose total score is 0.3 or less is never returned.
C4_AboveThreshold ==
    runs > 0 =>
        /\ \A n \in 1..Len(final_matches) : TotalScore(final_matches[n]) > 3000
        /\ \A c \in 1..Len(candidates) : \A k \in 1..Len(internships) :
              TotalScore(ScorePair(NewMatcher, candidates[c], internships[k]))
                  <= 3000
              => ~\E n \in 1..Len(final_matches) :
                     /\ final_matches[n].candidate_id = candidates[c].id
                     /\ final_matches[n].internship_id = internships[k].id

\* a pair scoring exactly 0.3 is left out although its internship keeps a
\* free position
C4_Witness ==
    /\ runs > 0
    /\ \E c \in 1..Len(candidates) : \E k \in 1..Len(internships) :
        /\ TotalScore(ScorePair(NewMatcher, candidates[c], internships[k]))
               = 3000
        /\ Available(internships[k]) > 0
        /\ Len(WinnersOf(internships[k].id)) < Available(internships[k])
        /\ ~\E n \in 1..Len(final_matches) :
               /\ final_matches[n].candidate_id = candidates[c].id
               /\ final_matches[n].internship_id = internships[k].id

\* C5: _check_capacity_constraint is true exactly when filled_positions <
\* capacity, and no scored or returned Match references an internship with
\* filled_positions >= capacity.
C5_FullInternshipsExcluded ==
    /\ \A k \in 1..Len(internships) :
          CheckCapacityConstraint(internships[k])
              <=> internships[k].filled_positions < internships[k].capacity
    /\ runs > 0 =>
          \A k \in 1..Len(internships) :
              internships[k].filled_positions >= internships[k].capacity =>
                  /\ RetainedOf(internships[k].id) = <<>>
                  /\ WinnersOf(internships[k].id) = <<>>

\* a run with a full internship that a candidate would score above 0.3 on,
\* next to an internship that does get winners
C5_Witness ==
    /\ runs > 0
    /\ final_matches # <<>>
    /\ \E k \in 1..Len(internships) : \E c \in 1..Len(candidates) :
        /\ internships[k].filled_positions = internships[k].capacity
        /\ internships[k].capacity > 0
        /\ TotalScore(ScorePair(NewMatcher, candidates[c], internships[k]))
               > 3000

(***************************************************************************)
(* The quota scenario: _apply_rural_quota called on the retained matches   *)
(* of one internship with capacity 8, 1 position filled and a 50% quota,   *)
(* 5 of them rural-eligible and 6 not.                                     *)
(***************************************************************************)
ScenarioInternship ==
    [BaseInternship EXCEPT !.id = 1, !.capacity = 8, !.filled_positions = 1,
                           !.rural_quota_percentage = 50]

ScenarioDistricts ==
    <<"urban", "rural", "urban", "aspirational", "urban", "rural",
      "urban", "rural", "urban", "aspirational", "urban">>

ScenarioCandidates ==
    [k \in 1..Len(ScenarioDistricts) |->
        [BaseCandidate EXCEPT !.id = k, !.district_type = ScenarioDistricts[k]]]

\* skill scores of the rural-eligible and of the other matches
RuralSkillLevels == {200, 500, 800}
OtherSkillLevels == {500, 800}

\* a Match of the scenario: every component 1.0 but the skill score and the
\* boost, so that every total is above 0.3
ScenarioMatch(k, skill) ==
    [candidate_id |-> k,
     internship_id |-> 1,
     match_score |-> 0,
     skill_match_score |-> skill,
     location_preference_score |-> 1000,
     sector_interest_score |-> 1000,
     affirmative_action_boost |-> 0,
     eligibility_score |-> 1000]

InitQuota ==
    /\ candidates = ScenarioCandidates
    /\ internships = <<ScenarioInternship>>
    /\ matcher = NewMatcher
    /\ \E skill \in [1..Len(ScenarioDistricts) ->
                        RuralSkillLevels \cup OtherSkillLevels] :
         /\ \A k \in 1..Len(ScenarioDistricts) :
               skill[k] \in (IF ScenarioDistricts[k] = "urban"
                             THEN OtherSkillLevels ELSE RuralSkillLevels)
         /\ matches = [k \in 1..Len(ScenarioDistricts) |->
                          ScenarioMatch(k, skill[k])]
    /\ quota_trace = <<>>
    /\ final_matches = <<>>
    /\ runs = 0
    /\ probe = NoProbe

\* matcher._apply_rural_quota(matches, internships_dict, candidates_dict)
RunApplyRuralQuota ==
    /\ runs < 1
    /\ LET trace == ApplyRuralQuotaTrace(matches, DictById(internships),
                                         DictById(candidates))
       IN  /\ quota_trace' = trace
           /\ final_matches' = ConcatSelected(trace)
    /\ runs' = runs + 1
    /\ UNCHANGED <<candidates, internships, matcher, matches, probe>>

NextQuota == RunApplyRuralQuota

SpecQuota == InitQuota /\ [][NextQuota]_vars

\* every element of list a scores at least as high as every element of set B
AllAtLeast(a, B) ==
    \A j \in 1..Len(a) : \A m \in B : TotalScore(a[j]) >= TotalScore(m)

\* C3: with capacity 8, 1 filled, quota 50, 5 rural-eligible and 6 other
\* retained matches, exactly 7 winners are selected: the 3 highest-scoring
\* rural-eligible matches, and the 4 highest-scoring matches of the pool of
\* the 2 remaining rural-eligible and the 6 other matches.
C3_ScenarioWinners ==
    runs > 0 =>
        LET rural == {m \in Range(matches) : RuralEligible(m)}
            step4 == quota_trace[1].rural_selected
            step5 == quota_trace[1].general_selected
            pool == Range(matches) \ Range(step4)
        IN  /\ Cardinality(rural) = 5
            /\ Cardinality(Range(matches) \ rural) = 6
            /\ Len(final_matches) = 7
            /\ Cardinality(Range(final_matches)) = 7
            /\ Range(final_matches) = Range(step4) \cup Range(step5)
            /\ Len(step4) = 3
            /\ Range(step4) \subseteq rural
            /\ AllAtLeast(step4, rural \ Range(step4))
            /\ Cardinality(pool) = 8
            /\ Len(step5) = 4
            /\ Range(step5) \subseteq pool
            /\ AllAtLeast(step5, pool \ Range(step5))

\* a remaining rural-eligible match wins a pool position next to matches that
\* are not rural-eligible, and a match that scores higher than a match of the
\* rural-quota step is among the winners of the pool
C3_Witness ==
    /\ runs > 0
    /\ Len(final_matches) = 7
    /\ \E j \in 1..Len(quota_trace[1].general_selected) :
          RuralEligible(quota_trace[1].general_selected[j])
    /\ \E j \in 1..Len(quota_trace[1].general_selected) :
          /\ ~RuralEligible(quota_trace[1].general_selected[j])
          /\ TotalScore(quota_trace[1].general_selected[j])
                > TotalScore(quota_trace[1].rural_selected[3])

(***************************************************************************)
(* Direct calls of the scoring methods, one call on a newly built matcher  *)
(* per behaviour, as the tests of test_matcher.py make them.               *)
(***************************************************************************)
Locations == {Empty, Goa, GOA, NorthGoa, Pune}

\* lists of at most n elements of S
SeqsUpTo(S, n) == UNION { [1..len -> S] : len \in 0..n }

CgpaValues == {60, 70, 80}
ExperienceValues == {0, 3, 6}
PreferredCategoryLists == {<<>>, <<"sc", "st">>, <<"general">>}
SectorInterestLists == {<<>>, <<"technology">>, <<"finance", "technology">>}

\* the candidates and internships whole Matches are built for
PairCandidates ==
    { [BaseCandidate EXCEPT !.skills = sk, !.preferred_locations = pl,
                            !.sector_interests = si, !.cgpa = g,
                            !.experience_months = e, !.district_type = d,
                            !.social_category = sc, !.past_internships = pi] :
        sk \in {<<>>, <<SQL>>, <<SQL, Java>>}, pl \in {<<>>, <<Goa>>},
        si \in {<<>>, <<"technology">>}, g \in {60, 80}, e \in {0, 6},
        d \in {"rural", "urban"}, sc \in {"general", "sc"},
        pi \in {<<>>, <<1, 2>>} }

PairInternships ==
    { [BaseInternship EXCEPT !.remote_allowed = r, !.location = l] :
        r \in BOOLEAN, l \in {Goa, Pune} }

InitScore ==
    /\ candidates = <<>>
    /\ internships = <<>>
    /\ matcher = NewMatcher
    /\ matches = <<>>
    /\ quota_trace = <<>>
    /\ final_matches = <<>>
    /\ runs = 0
    /\ probe = NoProbe

Call(op, candidate, internship, result) ==
    [op |-> op, candidate |-> candidate, internship |-> internship,
     result |-> result]

\* matcher._calculate_skill_match(candidate, internship)
CallSkillMatch ==
    /\ probe = NoProbe
    /\ \E a \in SkillLists, b \in SkillLists :
        LET c == [BaseCandidate EXCEPT !.skills = a]
            i == [BaseInternship EXCEPT !.required_skills = b]
        IN  /\ probe' = Call("skill", c, i, CalculateSkillMatch(matcher, c, i))
            /\ matcher' = SkillMatchEffect(matcher, c, i)
    /\ UNCHANGED <<candidates, internships, matches, quota_trace,
                   final_matches, runs>>

\* matcher._calculate_qualification_match(candidate, internship)
CallQualificationMatch ==
    /\ probe = NoProbe
    /\ \E a \in QualificationLists, b \in QualificationLists :
        LET c == [BaseCandidate EXCEPT !.qualifications = a]
            i == [BaseInternship EXCEPT !.preferred_qualifications = b]
        IN  /\ probe' = Call("qualification", c, i,
                             CalculateQualificationMatch(matcher, c, i))
            /\ matcher' = QualificationMatchEffect(matcher, c, i)
    /\ UNCHANGED <<candidates, internships, matches, quota_trace,
                   final_matches, runs>>

\* matcher._calculate_location_preference_score(candidate, internship)
CallLocationPreferenceScore ==
    /\ probe = NoProbe
    /\ \E remote \in BOOLEAN, il \in Locations, cl \in Locations,
          pl \in SeqsUpTo(Locations, MaxPreferred) :
        LET c == [BaseCandidate EXCEPT !.location = cl,
                                       !.preferred_locations = pl]
            i == [BaseInternship EXCEPT !.location = il,
                                        !.remote_allowed = remote]
        IN  probe' = Call("location", c, i,
                          CalculateLocationPreferenceScore(c, i))
    /\ UNCHANGED <<candidates, internships, matcher, matches, quota_trace,
                   final_matches, runs>>

\* matcher._calculate_sector_interest_score(candidate, internship)
CallSectorInterestScore ==
    /\ probe = NoProbe
    /\ \E sector \in {"technology", "finance", "ngo"},
          si \in SectorInterestLists :
        LET c == [BaseCandidate EXCEPT !.sector_interests = si]
            i == [BaseInternship EXCEPT !.sector = sector]
        IN  probe' = Call("sector", c, i, CalculateSectorInterestScore(c, i))
    /\ UNCHANGED <<candidates, internships, matcher, matches, quota_trace,
                   final_matches, runs>>

\* matcher._calculate_eligibility_score(candidate, internship)
CallEligibilityScore ==
    /\ probe = NoProbe
    /\ \E g \in CgpaValues, ming \in CgpaValues,
          e \in ExperienceValues, mine \in ExperienceValues :
        LET c == [BaseCandidate EXCEPT !.cgpa = g, !.experience_months = e]
            i == [BaseInternship EXCEPT !.min_cgpa = ming,
                                        !.min_experience_months = mine]
        IN  probe' = Call("eligibility", c, i, CalculateEligibilityScore(c, i))
    /\ UNCHANGED <<candidates, internships, matcher, matches, quota_trace,
                   final_matches, runs>>

\* matcher._calculate_affirmative_action_boost(candidate, internship)
CallAffirmativeActionBoost ==
    /\ probe = NoProbe
    /\ \E d \in DistrictType, sc \in SocialCategory,
          psc \in PreferredCategoryLists, n \in 0..(MaxPast + 1) :
        LET c == [BaseCandidate EXCEPT !.district_type = d,
                                       !.social_category = sc,
                                       !.past_internships = [k \in 1..n |-> k]]
            i == [BaseInternship EXCEPT !.preferred_social_categories = psc]
        IN  probe' = Call("boost", c, i, CalculateAffirmativeActionBoost(c, i))
    /\ UNCHANGED <<candidates, internships, matcher, matches, quota_trace,
                   final_matches, runs>>

\* matcher._check_capacity_constraint(internship)
CallCheckCapacityConstraint ==
    /\ probe = NoProbe
    /\ \E cap \in 0..MaxCapacity, f \in 0..(MaxCapacity + 1) :
        LET i == [BaseInternship EXCEPT !.capacity = cap,
                                        !.filled_positions = f]
        IN  probe' = Call("capacity", BaseCandidate, i,
                          CheckCapacityConstraint(i))
    /\ UNCHANGED <<candidates, internships, matcher, matches, quota_trace,
                   final_matches, runs>>

\* the body of the double loop of match_candidates for one pair: the six
\* scoring calls and the Match built from their results
CallScorePair ==
    /\ probe = NoProbe
    /\ \E c \in PairCandidates, i \in PairInternships :
        /\ probe' = Call("pair", c, i, ScorePair(matcher, c, i))
        /\ matcher' = ScorePairEffect(matcher, c, i)
    /\ UNCHANGED <<candidates, internships, matches, quota_trace,
                   final_matches, runs>>

NextScore ==
    \/ CallSkillMatch
    \/ CallQualificationMatch
    \/ CallLocationPreferenceScore
    \/ CallSectorInterestScore
    \/ CallEligibilityScore
    \/ CallAffirmativeActionBoost
    \/ CallCheckCapacityConstraint
    \/ CallScorePair

SpecScore == InitScore /\ [][NextScore]_vars

C7_EligibilityProduct ==
    probe.op = "eligibility" =>
        LET c == probe.candidate
            i == probe.internship
            cgpaTenths == IF c.cgpa < i.min_cgpa THEN 2 ELSE 10
            expTenths == IF c.experience_months < i.min_experience_months
                         THEN 5 ELSE 10
        IN  /\ probe.result = cgpaTenths * expTenths * 10
            /\ (c.cgpa < i.min_cgpa
                /\ c.experience_months < i.min_experience_months)
                  => probe.result = 100
            /\ (c.cgpa = i.min_cgpa
                /\ c.experience_months = i.min_experience_months)
                  => probe.result = 1000

\* both gates fail
C7_Witness ==
    /\ probe.op = "eligibility"
    /\ probe.candidate.cgpa < probe.internship.min_cgpa
    /\ probe.candidate.experience_months
          < probe.internship.min_experience_months
    /\ probe.result = 100

\* C8: the boost is min(1.0, a + b + c), a = 0.3 for a RURAL or ASPIRATIONAL
\* district, b = 0.2 for a preferred social category, c = 0.2 for no past
\* internship and 0.1 for exactly one; 0.7 when all three hold, never above 1.
C8_BoostSum ==
    probe.op = "boost" =>
        LET c == probe.candidate
            i == probe.internship
            a == IF c.district_type \in {"rural", "aspirational"}
                 THEN 300 ELSE 0
            b == IF c.social_category
                      \in Range(i.preferred_social_categories)
                 THEN 200 ELSE 0
            n == Len(c.past_internships)
            d == IF n = 0 THEN 200 ELSE IF n = 1 THEN 100 ELSE 0
        IN  /\ probe.result = (IF a + b + d < 1000 THEN a + b + d ELSE 1000)
            /\ probe.result <= 1000
            /\ (a = 300 /\ b = 200 /\ d = 200) => probe.result = 700

\* an ASPIRATIONAL candidate of a preferred category without past internship
C8_Witness ==
    /\ probe.op = "boost"
    /\ probe.candidate.district_type = "aspirational"
    /\ probe.candidate.social_category
          \in Range(probe.internship.preferred_social_categories)
    /\ probe.candidate.past_internships = <<>>
    /\ probe.result = 700

SameIgnoringCase(a, b) == Lower(a) = Lower(b)

\* C9: the location score is 1.0 for a remote internship whatever the
\* locations; else 1.0 if the internship location equals a preferred location
\* ignoring case; else 0.8 if it equals the current location ignoring case;
\* else 0.6 if a preferred location is a substring of it or it of a preferred
\* location, ignoring case; else 0.2.
C9_LocationCascade ==
    probe.op = "location" =>
        LET c == probe.candidate
            i == probe.internship
            pl == Range(c.preferred_locations)
            rule2 == \E l \in pl : SameIgnoringCase(l, i.location)
            rule3 == SameIgnoringCase(c.location, i.location)
            rule4 == \E l \in pl :
                        \/ IsSubstring(Lower(l), Lower(i.location))
                        \/ IsSubstring(Lower(i.location), Lower(l))
        IN  probe.result =
                (IF i.remote_allowed THEN 1000
                 ELSE IF rule2 THEN 1000
                 ELSE IF rule3 THEN 800
                 ELSE IF rule4 THEN 600
                 ELSE 200)

\* not remote, and the internship location equals both a preferred location
\* and the current location up to case: the earlier rule gives 1.0
C9_Witness ==
    /\ probe.op = "location"
    /\ ~probe.internship.remote_allowed
    /\ probe.internship.location = GOA
    /\ probe.candidate.location = Goa
    /\ probe.candidate.preferred_locations = <<Pune, Goa>>
    /\ probe.result = 1000

(***************************************************************************)
(* Repeated runs: match_candidates called again on the same inputs, on the *)
(* same matcher or a new one, with other pairs scored in between.          *)
(***************************************************************************)
RerunCandidates ==
    { BaseCandidate,
      [BaseCandidate EXCEPT !.skills = <<SQL>>, !.district_type = "rural"],
      [BaseCandidate EXCEPT !.skills = <<Java>>] }

RerunInternships ==
    { [BaseInternship EXCEPT !.capacity = MaxCapacity, !.required_skills = r] :
        r \in {<<SQL>>, <<SQL, Java>>} }

\* the skill lists of the pairs scored between two runs
OtherSkillLists == {<<SQL>>, <<Java>>, <<IT, SQL>>}

InitRerun ==
    /\ candidates \in ListsOf(RerunCandidates, MaxCandidates)
    /\ internships \in ListsOf(RerunInternships, 1)
    /\ matcher = NewMatcher
    /\ matches = <<>>
    /\ quota_trace = <<>>
    /\ final_matches = <<>>
    /\ runs = 0
    /\ probe = NoProbe

\* matcher.match_candidates(candidates, internships), again and again
Rerun ==
    /\ runs < MaxRuns
    /\ LET r == MatchCandidates(matcher, candidates, internships)
       IN  /\ matcher' = r.self
           /\ matches' = r.matches
           /\ quota_trace' = r.quota_trace
           /\ final_matches' = r.final_matches
           /\ internships' = r.internships
    /\ runs' = runs + 1
    /\ UNCHANGED <<candidates, probe>>

\* the scoring calls for some other pair, made on the same matcher
ScoreOtherPair ==
    /\ \E a \in OtherSkillLists, b \in OtherSkillLists :
        LET c == [BaseCandidate EXCEPT !.skills = a]
            i == [BaseInternship EXCEPT !.required_skills = b]
        IN  matcher' = ScorePairEffect(matcher, c, i)
    /\ UNCHANGED <<candidates, internships, matches, quota_trace,
                   final_matches, runs, probe>>

\* matcher = InternshipMatcher()
FreshMatcher ==
    /\ matcher' = NewMatcher
    /\ UNCHANGED <<candidates, internships, matches, quota_trace,
                   final_matches, runs, probe>>

NextRerun == Rerun \/ ScoreOtherPair \/ FreshMatcher

SpecRerun == InitRerun /\ [][NextRerun]_vars

\* C10: a further run of match_candidates on the same candidates and
\* internships returns the list the earlier run returned, whatever the matcher
\* did in between.
C10_RerunIdentical ==
    [][(runs >= 1 /\ runs' = runs + 1)
          => (final_matches' = final_matches /\ matches' = matches)]_vars

\* a second run has been made on candidates whose skill lists differ, so that
\* the skill vectorizer is fitted on several vocabularies, and it returned
\* at least two matches
C10_Witness ==
    /\ runs = 2
    /\ Len(final_matches) >= 2
    /\ \E k \in 1..Len(candidates) :
          candidates[k].skills # candidates[1].skills

(***************************************************************************)
(* The queries on a list of matches: get_top_matches_for_candidate and     *)
(* get_top_candidates_for_internship, called on a drawn list.              *)
(***************************************************************************)
GetTopMatchesForCandidateUnsorted(candidate_id, match_list, top_k) ==
    SliceTo(SelectSeq(match_list, LAMBDA m : m.candidate_id = candidate_id),
            top_k)

\* candidate_matches = [m for m in matches if m.candidate_id == candidate_id]
\* candidate_matches.sort(key=lambda m: m.total_score(), reverse=True)
\* return candidate_matches[:top_k]
GetTopMatchesForCandidate(candidate_id, match_list, top_k) ==
    SliceTo(SortByScore(SelectSeq(match_list,
                                  LAMBDA m : m.candidate_id = candidate_id)),
            top_k)

\* the same for internship_id
GetTopCandidatesForInternship(internship_id, match_list, top_k) ==
    SliceTo(SortByScore(SelectSeq(match_list,
                                  LAMBDA m : m.internship_id = internship_id)),
            top_k)

\* Match(candidate_id, internship_id, ...) with the given skill score
QueryMatch(candidate_id, internship_id, skill) ==
    [candidate_id |-> candidate_id,
     internship_id |-> internship_id,
     match_score |-> 0,
     skill_match_score |-> skill,
     location_preference_score |-> 1000,
     sector_interest_score |-> 1000,
     affirmative_action_boost |-> 0,
     eligibility_score |-> 1000]

QueryIds == {1, 2}

QuerySkillLevels == {500, 1000}

QueryMatches ==
    { QueryMatch(c, i, s) : c \in QueryIds, i \in QueryIds,
                            s \in QuerySkillLevels }

\* the ids asked for: those of the list and one that no match carries
AskedIds == QueryIds \cup {3}

\* the values of top_k: the non-negative ones and -1
TopKValues == (-1)..MaxTopK

InitQuery ==
    /\ candidates = <<>>
    /\ internships = <<>>
    /\ matcher = NewMatcher
    /\ matches \in SeqsUpTo(QueryMatches, MaxMatches)
    /\ quota_trace = <<>>
    /\ final_matches = <<>>
    /\ runs = 0
    /\ probe = NoProbe

Query(op, id, top_k, result) ==
    [op |-> op, id |-> id, top_k |-> top_k, result |-> result]

\* matcher.get_top_matches_for_candidate(id, matches, top_k)
CallGetTopMatchesForCandidate ==
    /\ probe = NoProbe
    /\ \E id \in AskedIds, top_k \in TopKValues :
          probe' = Query("top_matches", id, top_k,
                         GetTopMatchesForCandidate(id, matches, top_k))
    /\ UNCHANGED <<candidates, internships, matcher, matches, quota_trace,
                   final_matches, runs>>

\* matcher.get_top_candidates_for_internship(id, matches, top_k)
CallGetTopCandidatesForInternship ==
    /\ probe = NoProbe
    /\ \E id \in AskedIds, top_k \in TopKValues :
          probe' = Query("top_candidates", id, top_k,
                         GetTopCandidatesForInternship(id, matches, top_k))
    /\ UNCHANGED <<candidates, internships, matcher, matches, quota_trace,
                   final_matches, runs>>

NextQuery == CallGetTopMatchesForCandidate \/ CallGetTopCandidatesForInternship

SpecQuery == InitQuery /\ [][NextQuery]_vars

\* the id a query compares with the one asked for
AskedIdOf(m) ==
    IF probe.op = "top_matches" THEN m.candidate_id ELSE m.internship_id

\* the positions of the list given to the query that carry the id asked for
PositionsAsked ==
    { j \in 1..Len(matches) : AskedIdOf(matches[j]) = probe.id }

\* C11: for k >= 0 both queries return at most k matches, each one a match of
\* the list carrying the requested id, in non-increasing total score, and
\* every match of the list with that id that scores strictly higher than a
\* returned one is returned too.
C11_TopKQueries ==
    (probe.op \in {"top_matches", "top_candidates"} /\ probe.top_k >= 0) =>
        LET result == probe.result
        IN  /\ Len(result) <= probe.top_k
            /\ Len(result) <= Cardinality(PositionsAsked)
            /\ \A n \in 1..Len(result) :
                  /\ AskedIdOf(result[n]) = probe.id
                  /\ \E j \in PositionsAsked : matches[j] = result[n]
                  /\ Cardinality({ j \in PositionsAsked :
                        TotalScore(matches[j]) > TotalScore(result[n]) })
                     = Cardinality({ k \in 1..Len(result) :
                        TotalScore(result[k]) > TotalScore(result[n]) })
            /\ \A n \in 1..(Len(result) - 1) :
                  TotalScore(result[n]) >= TotalScore(result[n + 1])

\* a query for two matches on a list of three that all carry the id asked
\* for, the last of them scoring above the first: one match is left out and
\* the last of the list is returned first
C11_Witness ==
    /\ probe.op = "top_matches"
    /\ probe.top_k = 2
    /\ Len(probe.result) = 2
    /\ Cardinality(PositionsAsked) = Len(matches)
    /\ Len(matches) = 3
    /\ TotalScore(matches[3]) > TotalScore(matches[1])
    /\ probe.result[1] = matches[3]

\* C12: the list returned by match_candidates is sorted by relevance: of two
\* consecutive matches of the returned list the earlier one has a total score
\* greater than or equal to that of the later one.
C12_ReturnedListSorted ==
    \A n \in 1..(Len(final_matches) - 1) :
        TotalScore(final_matches[n]) >= TotalScore(final_matches[n + 1])

\* the skills, compared ignoring case, that both lists name
SharedSkills(skills, required_skills) ==
    (LowerSet(skills) \cap LowerSet(required_skills)) \ {Empty}

\* C13: whenever the candidate's skill list and the internship's
\* required-skill list are both non-empty and share at least one skill, the
\* skill-match score is strictly greater than 0.0.
C13_SharedSkillScoresPositive ==
    (/\ probe.op = "skill"
     /\ probe.candidate.skills # <<>>
     /\ probe.internship.required_skills # <<>>
     /\ SharedSkills(probe.candidate.skills,
                     probe.internship.required_skills) # {})
        => probe.result > 0

(***************************************************************************)
(* Runs of match_candidates on the same candidates taken in any order: the *)
(* pairs are scored candidate by candidate, so the order of the candidate  *)
(* list is the order in which the scored pairs reach the retained list.    *)
(***************************************************************************)
OrderCandidates ==
    { BaseCandidate,
      [BaseCandidate EXCEPT !.district_type = "rural"],
      [BaseCandidate EXCEPT !.district_type = "aspirational",
                            !.skills = <<SQL>>, !.cgpa = 60] }

OrderInternships ==
    { [BaseInternship EXCEPT !.capacity = c, !.rural_quota_percentage = q] :
        c \in 1..MaxCapacity, q \in QuotaPercentages }

\* the orders a list of n candidates can be taken in
CandidateOrders(n) ==
    { f \in [1..n -> 1..n] : \A a, b \in 1..n : a # b => f[a] # f[b] }

\* the candidate list in the given order; every candidate keeps its id
Permuted(candidate_list, order) ==
    [k \in 1..Len(candidate_list) |-> candidate_list[order[k]]]

InitOrder ==
    /\ candidates \in ListsOf(OrderCandidates, MaxSharedCandidates)
    /\ internships \in ListsOf(OrderInternships, 1)
    /\ matcher = NewMatcher
    /\ matches = <<>>
    /\ quota_trace = <<>>
    /\ final_matches = <<>>
    /\ runs = 0
    /\ probe = [op |-> "order", order |-> <<>>, previous |-> <<>>]

\* matcher.match_candidates(candidates in some order, internships); probe
\* keeps the order of this run and that of the run before
RunInOrder ==
    /\ runs < MaxRuns
    /\ \E order \in CandidateOrders(Len(candidates)) :
          LET r == MatchCandidates(matcher, Permuted(candidates, order),
                                   internships)
          IN  /\ matcher' = r.self
              /\ matches' = r.matches
              /\ quota_trace' = r.quota_trace
              /\ final_matches' = r.final_matches
              /\ internships' = r.internships
              /\ probe' = [op |-> "order", order |-> order,
                           previous |-> probe.order]
    /\ runs' = runs + 1
    /\ UNCHANGED candidates

NextOrder == RunInOrder

SpecOrder == InitOrder /\ [][NextOrder]_vars

\* the set of winners of each internship
WinnerSets ==
    [k \in 1..Len(internships) |-> Range(WinnersOf(internships[k].id))]

\* no two retained matches of the same internship have the same total score
NoTies ==
    \A a, b \in 1..Len(matches) :
        (a # b /\ matches[a].internship_id = matches[b].internship_id)
            => TotalScore(matches[a]) # TotalScore(matches[b])

\* C14 as stated: whatever order the candidates are taken in, a run produces
\* for each internship the set of winners the run before produced.
C14_WinnersOrderIndependent ==
    [][(runs >= 1 /\ runs' = runs + 1) => WinnerSets' = WinnerSets]_vars

\* C14: when no two retained matches of the same internship have the same
\* total score, a run on the candidates taken in any order produces for each
\* internship the set of winners the run before produced.
C14_WinnersOrderIndependentWithoutTies ==
    [][(runs >= 1 /\ runs' = runs + 1 /\ NoTies)
          => WinnerSets' = WinnerSets]_vars

\* two runs that took the candidates in different orders, on retained matches
\* with pairwise different scores that are more than the internship can take
C14_Witness ==
    /\ runs = 2
    /\ probe.order # probe.previous
    /\ NoTies
    /\ Len(matches) >= 2
    /\ Len(final_matches) >= 1
    /\ Len(final_matches) < Len(matches)

\* the list a run on the same candidates and on this internship alone returns
AloneWinners(internship) ==
    MatchCandidates(NewMatcher, candidates, <<internship>>).final_matches

\* C15: the winners of an internship are those of a run in which it is the
\* only internship: the retained matches and the winners of the other
\* internships of the run have no effect on them, and a candidate selected
\* for another internship is selected here as well when the internship alone
\* would select them.
C15_WinnersPerInternshipAlone ==
    (runs > 0 /\ Len(internships) >= 2) =>
        \A k \in 1..Len(internships) :
            WinnersOf(internships[k].id) = AloneWinners(internships[k])

\* a run on two internships with different free positions and quotas in
\* which one candidate is a winner of both and another candidate of one only
C15_Witness ==
    /\ runs > 0
    /\ Len(internships) = 2
    /\ WinnersOf(1) # <<>>
    /\ Len(WinnersOf(2)) > Len(WinnersOf(1))
    /\ \E a \in 1..Len(final_matches), b \in 1..Len(final_matches) :
          /\ final_matches[a].internship_id = 1
          /\ final_matches[b].internship_id = 2
          /\ final_matches[a].candidate_id = final_matches[b].candidate_id

\* the free positions each iteration of _apply_rural_quota computed
AvailabilitySeen ==
    [n \in 1..Len(quota_trace) |-> quota_trace[n].available_positions]

\* C16: no step changes a Candidate or an Internship, filled_positions and
\* capacity included; every match a run returns is one of the matches it
\* created and retained, field for field; and a further run on the same
\* objects computes the same free positions and returns the same winners.
C16_InputsUnchangedRerunSame ==
    [][/\ candidates' = candidates
       /\ internships' = internships
       /\ (runs' = runs + 1) =>
             Range(final_matches') \subseteq Range(matches')
       /\ (runs >= 1 /\ runs' = runs + 1) =>
             /\ AvailabilitySeen' = AvailabilitySeen
             /\ final_matches' = final_matches]_vars

\* a second run on an internship whose free positions the first run filled
\* completely
C16_Witness ==
    /\ runs = 2
    /\ Len(internships) = 1
    /\ Available(internships[1]) >= 2
    /\ Len(final_matches) = Available(internships[1])

\* the internship with this id
InternshipOf(internship_id) ==
    internships[CHOOSE k \in 1..Len(internships) :
                    internships[k].id = internship_id]

\* the numbers of rural-eligible and of other retained matches of an
\* internship
RuralRetained(internship_id) ==
    Len(SelectSeq(RetainedOf(internship_id), RuralEligible))

OtherRetained(internship_id) ==
    Len(RetainedOf(internship_id)) - RuralRetained(internship_id)

\* available - rural_target
GeneralTarget(i) == Available(i) - RuralTarget(i)

\* the size of the remaining pool: the rural-eligible matches beyond the
\* first rural_target, and all the others
PoolSize(internship_id) ==
    Max(RuralRetained(internship_id) - RuralTarget(InternshipOf(internship_id)),
        0)
    + OtherRetained(internship_id)

\* C17 as stated: for every internship allocated, the number of winners taken
\* from the remaining pool is min(general_target, size of the pool).
C17_PoolWinnersGeneralTarget ==
    \A n \in 1..Len(quota_trace) :
        LET e == quota_trace[n]
        IN  Len(e.general_selected)
              = Min(GeneralTarget(InternshipOf(e.internship_id)),
                    PoolSize(e.internship_id))

\* C17: for every internship allocated, the number of winners taken from the
\* remaining pool is min(available - number of rural-quota winners, size of
\* the pool), the rural-quota winners numbering min(rural_target, number of
\* rural-eligible matches); it is min(general_target, size of the pool) when
\* the rural-eligible matches are at least rural_target.
C17_PoolWinnersRemainingPositions ==
    \A n \in 1..Len(quota_trace) :
        LET e == quota_trace[n]
            i == InternshipOf(e.internship_id)
            rural_winners == Min(RuralTarget(i), RuralRetained(e.internship_id))
        IN  /\ Len(e.general_selected)
                 = Min(Available(i) - rural_winners, PoolSize(e.internship_id))
            /\ RuralRetained(e.internship_id) >= RuralTarget(i)
                  => Len(e.general_selected)
                        = Min(GeneralTarget(i), PoolSize(e.internship_id))

\* an internship with no rural-eligible match and a quota of 100 per cent:
\* its general_target is 0 and two winners are taken from the pool
C17_Witness ==
    \E n \in 1..Len(quota_trace) :
        LET e == quota_trace[n]
            i == InternshipOf(e.internship_id)
        IN  /\ RuralRetained(e.internship_id) = 0
            /\ GeneralTarget(i) = 0
            /\ Len(e.general_selected) = 2

\* C18: when an internship allocated has fewer rural-eligible retained
\* matches than rural_target, every one of them is a winner and the winners
\* that are not rural-eligible number min(available - number of
\* rural-eligible matches, number of other matches).
C18_UnusedRuralSlotsToPool ==
    \A n \in 1..Len(quota_trace) :
        LET id == quota_trace[n].internship_id
            i == InternshipOf(id)
        IN  RuralRetained(id) < RuralTarget(i) =>
                /\ \A j \in 1..Len(matches) :
                      (matches[j].internship_id = id
                       /\ RuralEligible(matches[j]))
                          => InList(matches[j], WinnersOf(id))
                /\ Len(WinnersOf(id)) - Len(RuralWinnersOf(id))
                      = Min(Available(i) - RuralRetained(id),
                            OtherRetained(id))

\* one rural-eligible match for a rural_target of two: it wins, one of the
\* two other matches takes the unused rural slot and the other is left out
C18_Witness ==
    \E n \in 1..Len(quota_trace) :
        LET id == quota_trace[n].internship_id
            i == InternshipOf(id)
        IN  /\ RuralTarget(i) = 2
            /\ RuralRetained(id) = 1
            /\ OtherRetained(id) = 2
            /\ Len(RuralWinnersOf(id)) = 1
            /\ Len(WinnersOf(id)) = 2

(***************************************************************************)
(* Runs of match_candidates on candidates whose total scores tie.          *)
(***************************************************************************)
\* a rural and an urban candidate with the same total score against
\* BaseInternship: skill 0.0 for both, boost 0.3 for the rural district of
\* the one and 0.2 + 0.1 for the preferred category and the single past
\* internship of the other
TieCandidates ==
    { [BaseCandidate EXCEPT !.skills = <<>>, !.district_type = "rural"],
      [BaseCandidate EXCEPT !.skills = <<>>, !.social_category = "sc",
                            !.past_internships = <<1>>] }

InitTies ==
    /\ candidates \in ListsOf(TieCandidates, MaxCandidates)
    /\ internships \in ListsOf(InternshipProfiles, 1)
    /\ matcher = NewMatcher
    /\ matches = <<>>
    /\ quota_trace = <<>>
    /\ final_matches = <<>>
    /\ runs = 0
    /\ probe = NoProbe

NextTies == RunMatchCandidates

SpecTies == InitTies /\ [][NextTies]_vars

\* match a was inserted before match b of the same internship: the pairs are
\* scored candidate by candidate and the id of a candidate is its position
InsertedBefore(a, b) == a.candidate_id < b.candidate_id

\* the pairs of matches of one iteration of _apply_rural_quota that tie, the
\* first of the pair inserted before the second
TiedPairs(e) ==
    { p \in Range(e.internship_match_list) \X Range(e.internship_match_list) :
        /\ TotalScore(p[1]) = TotalScore(p[2])
        /\ InsertedBefore(p[1], p[2]) }

\* both matches are in the step-5 pool of the iteration
BothInPool(e, a, b) ==
    ~InList(a, e.rural_selected) /\ ~InList(b, e.rural_selected)

\* C19 as stated: of two matches of an internship with equal total score, the
\* later inserted one is selected in the rural selection, or from the
\* remaining pool when both are in it, only if the earlier one is.
C19_TiesByInsertionOrder ==
    \A n \in 1..Len(quota_trace) :
        LET e == quota_trace[n]
        IN  \A p \in TiedPairs(e) :
              /\ (RuralEligible(p[1]) /\ RuralEligible(p[2])
                  /\ InList(p[2], e.rural_selected))
                     => InList(p[1], e.rural_selected)
              /\ (BothInPool(e, p[1], p[2])
                  /\ InList(p[2], e.general_selected))
                     => InList(p[1], e.general_selected)

\* C19: of two matches of an internship with equal total score that are both
\* rural-eligible or both not, the later inserted one is selected in the
\* rural selection, or from the remaining pool when both are in it, only if
\* the earlier one is; of a rural-eligible and a non-rural match with equal
\* total score that are both in the remaining pool, the non-rural one is
\* selected only if the rural-eligible one is, whatever their insertion
\* order.
C19_TiesByInsertionOrderWithinKind ==
    \A n \in 1..Len(quota_trace) :
        LET e == quota_trace[n]
        IN  /\ \A p \in TiedPairs(e) :
                  /\ (RuralEligible(p[1]) /\ RuralEligible(p[2])
                      /\ InList(p[2], e.rural_selected))
                         => InList(p[1], e.rural_selected)
                  /\ (RuralEligible(p[1]) = RuralEligible(p[2])
                      /\ BothInPool(e, p[1], p[2])
                      /\ InList(p[2], e.general_selected))
                         => InList(p[1], e.general_selected)
            /\ \A p \in TiedPairs(e) \cup { <<q[2], q[1]>> : q \in TiedPairs(e) } :
                  (RuralEligible(p[1]) /\ ~RuralEligible(p[2])
                   /\ BothInPool(e, p[1], p[2])
                   /\ InList(p[2], e.general_selected))
                      => InList(p[1], e.general_selected)

\* three matches with the same total score for two free positions, one of
\* them for the rural quota: the first rural-eligible match takes the quota
\* position, and the pool position goes to the second rural-eligible match
\* although a non-rural match was inserted before both
C19_Witness ==
    \E n \in 1..Len(quota_trace) :
        LET e == quota_trace[n]
        IN  /\ Len(e.rural_selected) = 1
            /\ Len(e.general_selected) = 1
            /\ RuralEligible(e.general_selected[1])
            /\ <<e.rural_selected[1], e.general_selected[1]>> \in TiedPairs(e)
            /\ \E u \in Range(e.internship_match_list) :
                  /\ ~RuralEligible(u)
                  /\ <<u, e.rural_selected[1]>> \in TiedPairs(e)
                  /\ ~InList(u, e.selected_matches)

(***************************************************************************)
(* Runs of match_candidates between which the caller changes the           *)
(* qualifications of a candidate or the preferred qualifications of an     *)
(* internship.                                                             *)
(***************************************************************************)
QualCandidates ==
    { BaseCandidate,
      [BaseCandidate EXCEPT !.skills = <<SQL>>, !.district_type = "rural"] }

QualInternships == { [BaseInternship EXCEPT !.rural_quota_percentage = 0] }

\* the lists the qualifications are changed to
QualChoices == {<<>>, <<IT>>, <<SQL, Java>>}

InitQual ==
    /\ candidates \in ListsOf(QualCandidates, MaxSharedCandidates)
    /\ internships \in ListsOf(QualInternships, 1)
    /\ matcher = NewMatcher
    /\ matches = <<>>
    /\ quota_trace = <<>>
    /\ final_matches = <<>>
    /\ runs = 0
    /\ probe = NoProbe

\* candidate.qualifications = q, by the caller; probe keeps the number of
\* runs made before the change
ChangeQualifications ==
    /\ \E k \in 1..Len(candidates), q \in QualChoices :
          /\ candidates[k].qualifications # q
          /\ candidates' = [candidates EXCEPT ![k].qualifications = q]
    /\ probe' = [op |-> "qualifications", runs |-> runs]
    /\ UNCHANGED <<internships, matcher, matches, quota_trace, final_matches,
                   runs>>

\* internship.preferred_qualifications = q, by the caller
ChangePreferredQualifications ==
    /\ \E k \in 1..Len(internships), q \in QualChoices :
          /\ internships[k].preferred_qualifications # q
          /\ internships' =
                [internships EXCEPT ![k].preferred_qualifications = q]
    /\ probe' = [op |-> "qualifications", runs |-> runs]
    /\ UNCHANGED <<candidates, matcher, matches, quota_trace, final_matches,
                   runs>>

NextQual == Rerun \/ ChangeQualifications \/ ChangePreferredQualifications

SpecQual == InitQual /\ [][NextQual]_vars

\* 0.3*skill + 0.2*location + 0.2*sector + 0.2*eligibility + 0.1*boost, in
\* ten-thousandths
WeightedSum(m) ==
    3 * m.skill_match_score + 2 * m.location_preference_score
    + 2 * m.sector_interest_score + 2 * m.eligibility_score
    + 1 * m.affirmative_action_boost

\* C20: the total score of every match is 0.3*skill + 0.2*location +
\* 0.2*sector + 0.2*eligibility + 0.1*boost; the Match built for a pair is
\* the same whatever the qualifications of the candidate and the preferred
\* qualifications of the internship; and a run made after only such lists
\* were changed returns the list, and retains the matches, of the run before.
C20_QualificationHasNoEffect ==
    /\ [](/\ \A n \in 1..Len(matches) :
                TotalScore(matches[n]) = WeightedSum(matches[n])
          /\ \A k \in 1..Len(candidates), j \in 1..Len(internships) :
                \A q \in QualChoices, p \in QualChoices :
                    LET c == [candidates[k] EXCEPT !.qualifications = q]
                        i == [internships[j] EXCEPT
                                 !.preferred_qualifications = p]
                        m == ScorePair(matcher, candidates[k], internships[j])
                    IN  /\ ScorePair(matcher, c, i) = m
                        /\ TotalScore(m) = WeightedSum(m))
    /\ [][(runs >= 1 /\ runs' = runs + 1)
             => (final_matches' = final_matches /\ matches' = matches)]_vars

\* a second run made after a change of qualifications that followed the first
\* run, on a candidate whose qualifications now differ from those the
\* internship prefers, with two retained matches for one position
C20_Witness ==
    /\ runs = 2
    /\ probe.op = "qualifications"
    /\ probe.runs = 1
    /\ Len(matches) = 2
    /\ Len(final_matches) = 1
    /\ \E k \in 1..Len(candidates) :
          /\ candidates[k].id = final_matches[1].candidate_id
          /\ candidates[k].qualifications
                # internships[1].preferred_qualifications

(***************************************************************************)
(* Match.__eq__: Match is a plain @dataclass, so the generated __eq__      *)
(* compares the tuples of all the fields of the two objects.               *)
(***************************************************************************)
MatchEqByIds(a, b) ==
    <<a.candidate_id, a.internship_id>> = <<b.candidate_id, b.internship_id>>

\* a == b for two Match objects
MatchEq(a, b) ==
    <<a.candidate_id, a.internship_id, a.match_score, a.skill_match_score,
      a.location_preference_score, a.sector_interest_score,
      a.affirmative_action_boost, a.eligibility_score>>
    = <<b.candidate_id, b.internship_id, b.match_score, b.skill_match_score,
        b.location_preference_score, b.sector_interest_score,
        b.affirmative_action_boost, b.eligibility_score>>

\* matches[a] == matches[b], for two matches of the drawn list
CallMatchEq ==
    /\ probe = NoProbe
    /\ \E a \in 1..Len(matches), b \in 1..Len(matches) :
          probe' = [op |-> "eq", a |-> matches[a], b |-> matches[b],
                    result |-> MatchEq(matches[a], matches[b])]
    /\ UNCHANGED <<candidates, internships, matcher, matches, quota_trace,
                   final_matches, runs>>

NextEquality == CallMatchEq

SpecEquality == InitQuery /\ [][NextEquality]_vars

\* the two matches compared carry the same candidate_id and internship_id
SameIds(a, b) ==
    a.candidate_id = b.candidate_id /\ a.internship_id = b.internship_id

\* C21 as stated: two matches with the same candidate_id and internship_id
\* are equal whatever their component scores, and two matches that differ in
\* candidate_id or internship_id are not equal.
C21_EqualityByIds ==
    probe.op = "eq" => (probe.result <=> SameIds(probe.a, probe.b))

\* C21: two matches are equal exactly when they agree on candidate_id,
\* internship_id and every score field; so two matches that differ in
\* candidate_id or internship_id are not equal, and neither are two matches
\* with the same ids and different component scores.
C21_EqualityByAllFields ==
    probe.op = "eq" =>
        /\ probe.result <=>
              \A f \in {"candidate_id", "internship_id", "match_score",
                        "skill_match_score", "location_preference_score",
                        "sector_interest_score", "affirmative_action_boost",
                        "eligibility_score"} : probe.a[f] = probe.b[f]
        /\ ~SameIds(probe.a, probe.b) => ~probe.result

\* two matches for the same pair with different skill scores were compared
\* and found different
C21_Witness ==
    /\ probe.op = "eq"
    /\ SameIds(probe.a, probe.b)
    /\ probe.a.skill_match_score # probe.b.skill_match_score
    /\ ~probe.result

(***************************************************************************)
(* fairness.py: fairness_rerank_for_candidate on a list of scored jobs.    *)
(* A result is the dict built by score_jobs_for_resume, with its job, its  *)
(* accommodation_flag and its final_score in thousandths; a profile is a   *)
(* dict that may lack the key annual_income.                               *)
(***************************************************************************)
LowIncomeLimit == 300000

\* one step of sorted(new_top, key=lambda x: x["final_score"], reverse=True)
InsertByFinalScore(sorted, r) ==
    LET before == SelectSeq(sorted, LAMBDA x : x.final_score >= r.final_score)
        after == SelectSeq(sorted, LAMBDA x : x.final_score < r.final_score)
    IN  before \o <<r>> \o after

RECURSIVE SortByFinalScore(_)
SortByFinalScore(list) ==
    IF list = <<>> THEN <<>>
    ELSE InsertByFinalScore(SortByFinalScore(SubSeq(list, 1, Len(list) - 1)),
                            list[Len(list)])

\* prefer_accom after the two tests on the income and on the flag
PreferAccom(candidate_profile, required_accommodation_min) ==
    \/ /\ "annual_income" \in DOMAIN candidate_profile
       /\ candidate_profile.annual_income > 0
       /\ candidate_profile.annual_income < LowIncomeLimit
    \/ required_accommodation_min

fairness_rerank_for_candidate(results, candidate_profile, required_accommodation_min, top_k) ==
    LET top == SliceTo(results, top_k)
        accom_candidates ==
            SelectSeq(results, LAMBDA r : r.accommodation_flag = 1)
        best_accom == accom_candidates[1]
        new_top == IF ~InList(best_accom, top)
                   THEN SliceTo(top, -1) \o <<best_accom>>
                   ELSE top
    IN  IF ~PreferAccom(candidate_profile, required_accommodation_min)
        THEN top
        ELSE IF \E n \in 1..Len(top) : top[n].accommodation_flag = 1
        THEN top
        ELSE IF accom_candidates = <<>> THEN top
        ELSE SortByFinalScore(new_top)

\* the scored jobs: the job of a result is its position in the list
JobScores == {300, 500, 800}

ResultLists ==
    UNION { { [k \in 1..len |->
                 [job |-> k, accommodation_flag |-> f[k][1],
                  final_score |-> f[k][2]]] :
              f \in [1..len -> {0, 1} \X JobScores] } :
            len \in 0..MaxResults }

\* profiles without an income and with an income of 0, below, just below and
\* at the limit
CandidateProfileDicts ==
    { [name |-> "x"] }
    \cup { [name |-> "x", annual_income |-> v] :
             v \in {0, 150000, LowIncomeLimit - 1, LowIncomeLimit} }

\* fairness_rerank_for_candidate(results, profile, required, top_k)
CallFairnessRerank ==
    /\ probe = NoProbe
    /\ \E results \in ResultLists, candidate_profile \in CandidateProfileDicts,
          required_accommodation_min \in BOOLEAN, top_k \in TopKValues :
          probe' = [op |-> "rerank", results |-> results,
                    candidate_profile |-> candidate_profile,
                    required_accommodation_min |-> required_accommodation_min,
                    top_k |-> top_k,
                    result |-> fairness_rerank_for_candidate(
                                  results, candidate_profile,
                                  required_accommodation_min, top_k)]
    /\ UNCHANGED <<candidates, internships, matcher, matches, quota_trace,
                   final_matches, runs>>

NextFairness == CallFairnessRerank

SpecFairness == InitScore /\ [][NextFairness]_vars

\* the list is sorted by descending final_score
SortedByFinalScore(list) ==
    \A n \in 1..(Len(list) - 1) : list[n].final_score >= list[n + 1].final_score

\* the jobs of a list that provide accommodation
AccomJobs(list) ==
    { list[n] : n \in { k \in 1..Len(list) : list[k].accommodation_flag = 1 } }

\* C22: for a candidate whose annual_income is below 300000, top_k >= 1 and
\* a results list sorted by descending final_score that holds a job with
\* accommodation, the returned list holds a job with accommodation, and when
\* none was among the first top_k it holds one with the highest final_score
\* of the jobs with accommodation.
C22_LowIncomeGetsAccommodation ==
    (/\ probe.op = "rerank"
     /\ "annual_income" \in DOMAIN probe.candidate_profile
     /\ probe.candidate_profile.annual_income < LowIncomeLimit
     /\ probe.top_k >= 1
     /\ SortedByFinalScore(probe.results)
     /\ AccomJobs(probe.results) # {})
        => /\ AccomJobs(probe.result) # {}
           /\ AccomJobs(SliceTo(probe.results, probe.top_k)) = {}
                 => \E r \in AccomJobs(probe.result) :
                       \A x \in AccomJobs(probe.results) :
                           r.final_score >= x.final_score

\* C23: for every internship with available = capacity - filled_positions > 0
\* (the quotas of the runs are all between 0 and 100) the winners number
\* exactly min(available, number of retained matches of the internship); and
\* a run on no candidate or on no internship returns the empty list.
C23_WinnersFillAvailable ==
    runs > 0 =>
        /\ \A k \in 1..Len(internships) :
              (Available(internships[k]) > 0
               /\ internships[k].rural_quota_percentage \in 0..100)
                 => Len(WinnersOf(internships[k].id))
                       = Min(Available(internships[k]),
                             Len(RetainedOf(internships[k].id)))
        /\ (candidates = <<>> \/ internships = <<>>) => final_matches = <<>>

\* two free positions, half of them for the rural quota, and three retained
\* matches: both positions are filled, the second from the remaining pool by
\* a rural-eligible match, and one match is left out
C23_Witness ==
    /\ runs > 0
    /\ \E k \in 1..Len(internships) :
          /\ Available(internships[k]) = 2
          /\ internships[k].rural_quota_percentage = 50
          /\ Len(RetainedOf(internships[k].id)) = 3
          /\ Len(WinnersOf(internships[k].id)) = 2
          /\ Len(RuralWinnersOf(internships[k].id)) = 2

\* the retained matches of an internship that are not among its winners
UnselectedOf(internship_id) ==
    SelectSeq(RetainedOf(internship_id),
              LAMBDA m : ~InList(m, WinnersOf(internship_id)))

\* C24: for every internship the rural-eligible winners number at least
\* min(rural_target, number of rural-eligible retained matches of the
\* internship), whatever the scores of the other matches.
C24_RuralQuotaIsMinimum ==
    runs > 0 =>
        \A k \in 1..Len(internships) :
            Len(RuralWinnersOf(internships[k].id))
               >= Min(RuralTarget(internships[k]),
                      RuralRetained(internships[k].id))

\* an internship whose only free position is a rural-quota position: a
\* rural-eligible match wins it and a non-rural match with a strictly higher
\* total score is left out
C24_Witness ==
    /\ runs > 0
    /\ \E k \in 1..Len(internships) :
          LET id == internships[k].id
          IN  /\ Available(internships[k]) = 1
              /\ RuralTarget(internships[k]) = 1
              /\ Len(RuralWinnersOf(id)) = 1
              /\ \E n \in 1..Len(UnselectedOf(id)) :
                    /\ ~RuralEligible(UnselectedOf(id)[n])
                    /\ TotalScore(UnselectedOf(id)[n])
                          > TotalScore(WinnersOf(id)[1])

\* C25: within an internship, no unselected retained match has a strictly
\* higher total score than a winner taken from the remaining pool, and no
\* unselected rural-eligible match has a strictly higher total score than
\* any winner.
C25_NoJustifiedEnvy ==
    \A n \in 1..Len(quota_trace) :
        LET e == quota_trace[n]
            unselected == UnselectedOf(e.internship_id)
        IN  \A u \in 1..Len(unselected) :
              /\ \A w \in 1..Len(e.general_selected) :
                    TotalScore(unselected[u])
                       <= TotalScore(e.general_selected[w])
              /\ RuralEligible(unselected[u]) =>
                    \A w \in 1..Len(WinnersOf(e.internship_id)) :
                        TotalScore(unselected[u])
                           <= TotalScore(WinnersOf(e.internship_id)[w])

\* a rural-quota winner and a pool winner, and a match left out that is not
\* rural-eligible and scores strictly above the rural-quota winner but not
\* above the pool winner
C25_Witness ==
    \E n \in 1..Len(quota_trace) :
        LET e == quota_trace[n]
            unselected == UnselectedOf(e.internship_id)
        IN  /\ Len(e.rural_selected) = 1
            /\ Len(e.general_selected) = 1
            /\ \E u \in 1..Len(unselected) :
                  /\ ~RuralEligible(unselected[u])
                  /\ TotalScore(unselected[u])
                        > TotalScore(e.rural_selected[1])
                  /\ TotalScore(unselected[u])
                        <= TotalScore(e.general_selected[1])

\* C26: the candidate and internship ids of the runs being unique, the
\* returned list holds each (candidate_id, internship_id) pair at most once;
\* every returned match is the match scored for a candidate of the input and
\* an internship of the input with a free position; and no match is both a
\* rural-quota winner and a remaining-pool winner of an internship.
C26_ReturnedPairsUnique ==
    /\ \A a, b \in 1..Len(final_matches) :
          (a # b) =>
              <<final_matches[a].candidate_id, final_matches[a].internship_id>>
                 # <<final_matches[b].candidate_id,
                     final_matches[b].internship_id>>
    /\ \A a \in 1..Len(final_matches) :
          \E k \in 1..Len(candidates), j \in 1..Len(internships) :
              /\ CheckCapacityConstraint(internships[j])
              /\ final_matches[a]
                    = ScorePair(NewMatcher, candidates[k], internships[j])
    /\ \A n \in 1..Len(quota_trace) :
          Range(quota_trace[n].rural_selected)
             \cap Range(quota_trace[n].general_selected) = {}

\* a run on two internships that returns, for each of them, a rural-quota
\* winner and a pool winner, the pool winner of the first being
\* rural-eligible
C26_Witness ==
    /\ Len(quota_trace) = 2
    /\ \A n \in 1..Len(quota_trace) :
          /\ quota_trace[n].rural_selected # <<>>
          /\ quota_trace[n].general_selected # <<>>
    /\ RuralEligible(quota_trace[1].general_selected[1])

====
